---- MODULE Spec2Model ----
(***************************************************************************)
(* State-machine model of the mason plug graph: plug connections           *)
(* (asciiplug.AsciiPlug.connect / disconnect), the sparse element array of *)
(* a top-level array plug (collections.sparsearray.SparseArray and the     *)
(* AsciiPlug element operations), data blocks (asciidata) and the setAttr  *)
(* serialisation / re-parse round trip (AsciiPlug.getSetAttrCmds,          *)
(* AsciiFileParser.setAttr).                                               *)
(***************************************************************************)
EXTENDS Integers, Sequences, FiniteSets, TLC

VARIABLES
    source,         \* AsciiPlug._source of each plug (None = null weak reference)
    destinations,   \* AsciiPlug._destinations of each plug (a list)
    connections,    \* AsciiNode._connections of each node (a list)
    call,           \* the last connect / disconnect call and its outcome
    elements,       \* SparseArray.__items__ of the array plug, in insertion order
    nextId,         \* identity given to the next AsciiPlug that is constructed
    last,           \* the last operation on the array plug and its outcome
    out,            \* result of the last serialise / re-parse / serialise run
    attribute,      \* the AsciiAttribute of the single plug of the data model
    blockValue,     \* AsciiData.__value__ of its data block (child values of a compound)
    dcall,          \* the last operation on the data block and its outcome
    dout,           \* result of the last getSetAttrCmds of the single plug
    codec,          \* a value of a data kind, its encoded tokens and the decoded result
    path,           \* AsciiPlugPath._segments: the index of each segment
    cache,          \* AsciiPlugPath._cache
    pcall,          \* the last evaluate() of the path and its outcome
    ptype,          \* the outcome of the last type() of the path
    nodes,          \* AsciiRegistry.nodes: hash code -> the node's _name, _namespace, _uuid
    names,          \* AsciiRegistry.names: "namespace:name" -> hash code
    uuids,          \* AsciiRegistry.uuids: UUID -> hash code
    rcall,          \* the last operation on the registry and the node it acted on
    parent,         \* AsciiNode._parent of each node (0 = null weak reference)
    children,       \* AsciiNode._children of each node (a list)
    tcall,          \* the last assignment of a parent and its outcome
    statements,     \* the command lines of the ascii file
    lineNumber,     \* number of lines AsciiFileParser.__parse__ has read
    fileInfo,       \* AsciiScene.fileInfo
    applied,        \* lines whose delegate ran to completion
    logged,         \* "" while parsing, then "EOF" or the exception __init__ logged
    delimited,      \* the last statement of the file ends with the delimiter
    appended,       \* lines __parse__ has appended to its buffer at the end of the file
    nodePlugs,      \* AsciiNode.plugs: attribute name -> the plug, its data and its children
    ncall,          \* the last operation on a plug of the node and its outcome
    ccmds,          \* the last run of getConnectAttrCmds over the nodes and the sources it saw
    gv,             \* the last getValue() of the array plug, with the elements it saw
    naSource,       \* AsciiPlug._source of the elements of the array plug: logical index -> source plug
    naCount         \* number of connectAttr -na statements that were processed

connVars == <<source, destinations, connections, call>>

arrVars == <<elements, nextId, last, out>>

dataVars == <<attribute, blockValue, dcall, dout>>

codecVars == <<codec>>

pathVars == <<path, cache, pcall, ptype>>

regVars == <<nodes, names, uuids, rcall>>

treeVars == <<parent, children, tcall>>

parserVars == <<statements, lineNumber, fileInfo, applied, logged, delimited, appended>>

nodeVars == <<nodePlugs, ncall>>

cmdVars == <<ccmds>>

valVars == <<gv>>

naVars == <<naSource, naCount>>

vars == <<source, destinations, connections, call, elements, nextId, last, out,
          attribute, blockValue, dcall, dout, codec, path, cache, pcall, ptype,
          nodes, names, uuids, rcall, parent, children, tcall,
          statements, lineNumber, fileInfo, applied, logged, delimited, appended,
          nodePlugs, ncall,
          ccmds,
          gv,
          naSource, naCount>>

\* what the operations of one part of the model leave alone
connOthers == <<arrVars, dataVars, codecVars, pathVars, regVars, treeVars, parserVars, nodeVars, cmdVars, valVars, naVars>>

arrOthers == <<connVars, dataVars, codecVars, pathVars, regVars, treeVars, parserVars, nodeVars, cmdVars, valVars, naVars>>

dataOthers == <<connVars, arrVars, codecVars, pathVars, regVars, treeVars, parserVars, nodeVars, cmdVars, valVars, naVars>>

codecOthers == <<connVars, arrVars, dataVars, pathVars, regVars, treeVars, parserVars, nodeVars, cmdVars, valVars, naVars>>

pathOthers == <<connVars, dataVars, codecVars, regVars, treeVars, parserVars, nodeVars, cmdVars, valVars, naVars>>

regOthers == <<connVars, arrVars, dataVars, codecVars, pathVars, treeVars, parserVars, nodeVars, cmdVars, valVars, naVars>>

treeOthers == <<connVars, arrVars, dataVars, codecVars, pathVars, regVars, parserVars, nodeVars, cmdVars, valVars, naVars>>

parserOthers == <<connVars, arrVars, dataVars, codecVars, pathVars, regVars, treeVars, nodeVars, cmdVars, valVars, naVars>>

nodeOthers == <<connVars, arrVars, dataVars, codecVars, pathVars, regVars, treeVars, parserVars, cmdVars, valVars, naVars>>

cmdOthers == <<arrVars, dataVars, codecVars, pathVars, regVars, treeVars, parserVars, nodeVars, valVars, naVars>>

valOthers == <<connVars, arrVars, dataVars, codecVars, pathVars, regVars, treeVars, parserVars, nodeVars, cmdVars, naVars>>

naOthers == <<connVars, arrVars, dataVars, codecVars, pathVars, regVars, treeVars, parserVars, nodeVars, cmdVars, valVars>>

None == "None"

Range(s) == {s[i] : i \in DOMAIN s}

(***************************************************************************)
(* Connections                                                             *)
(***************************************************************************)

\* the plugs of the connection model and the node that owns each of them
Plugs == {"A", "B", "C"}

Nodes == {"n1", "n2"}

nodeOf == [p \in Plugs |-> IF p = "B" THEN "n2" ELSE "n1"]

\* bound on the length of a node's connection list
MaxConnections == 2

\* AsciiNode.legalConnection: always legal
legalConnection(plug, otherPlug) == TRUE

\* AsciiNode.legalDisconnection: always legal
legalDisconnection(plug, otherPlug) == TRUE

\* list.remove(x): drops the first occurrence of x
RECURSIVE ListRemove(_, _)
ListRemove(s, x) ==
    IF s = <<>> THEN <<>>
    ELSE IF Head(s) = x THEN Tail(s)
    ELSE <<Head(s)>> \o ListRemove(Tail(s), x)

\* AsciiNode.connectionMade: the node records the destination plug
connectionMade(conns, plug, otherPlug) ==
    [conns EXCEPT ![nodeOf[plug]] = Append(@, otherPlug)]

\* the state of the two plugs after the body of AsciiPlug.connect
connectSource(src, plug, otherPlug) == [src EXCEPT ![otherPlug] = plug]

connectDestinations(dst, plug, otherPlug) == [dst EXCEPT ![plug] = Append(@, otherPlug)]

ConnStart ==
    /\ source = [p \in Plugs |-> None]
    /\ destinations = [p \in Plugs |-> <<>>]
    /\ connections = [n \in Nodes |-> <<>>]
    /\ call = [op |-> "init", plug |-> None, otherPlug |-> None,
               wasConnected |-> FALSE, raised |-> None, ret |-> None]

\* AsciiPlug.connect(otherPlug)
connect(plug, otherPlug) ==
    /\ Len(connections[nodeOf[plug]]) < MaxConnections
    /\ IF ~legalConnection(plug, otherPlug)
       THEN /\ UNCHANGED <<source, destinations, connections>>
            /\ call' = [op |-> "connect", plug |-> plug, otherPlug |-> otherPlug,
                        wasConnected |-> FALSE, raised |-> None, ret |-> None]
       ELSE /\ source' = connectSource(source, plug, otherPlug)
            /\ destinations' = connectDestinations(destinations, plug, otherPlug)
            /\ connections' = connectionMade(connections, plug, otherPlug)
            /\ call' = [op |-> "connect", plug |-> plug, otherPlug |-> otherPlug,
                        wasConnected |-> FALSE, raised |-> None, ret |-> "True"]

\* AsciiPlug.disconnect(otherPlug): the source is cleared first, then the
\* destination is removed from the list (ValueError when it is not there), then
\* the node is notified through disconnectionMade, a method AsciiNode does not
\* have (its callback is named connectionBroken): AttributeError
disconnect(plug, otherPlug) ==
    LET connected == source[otherPlug] = plug /\ otherPlug \in Range(destinations[plug])
    IN  IF ~legalDisconnection(plug, otherPlug)
        THEN /\ UNCHANGED <<source, destinations, connections>>
             /\ call' = [op |-> "disconnect", plug |-> plug, otherPlug |-> otherPlug,
                         wasConnected |-> connected, raised |-> None, ret |-> None]
        ELSE /\ source' = [source EXCEPT ![otherPlug] = None]
             /\ IF otherPlug \in Range(destinations[plug])
                THEN /\ destinations' = [destinations EXCEPT ![plug] = ListRemove(@, otherPlug)]
                     /\ call' = [op |-> "disconnect", plug |-> plug, otherPlug |-> otherPlug,
                                 wasConnected |-> connected, raised |-> "AttributeError",
                                 ret |-> None]
                ELSE /\ UNCHANGED destinations
                     /\ call' = [op |-> "disconnect", plug |-> plug, otherPlug |-> otherPlug,
                                 wasConnected |-> connected, raised |-> "ValueError",
                                 ret |-> None]
             /\ UNCHANGED connections

Connect == \E p \in Plugs : \E q \in Plugs \ {p} : connect(p, q) /\ UNCHANGED connOthers

Disconnect == \E p \in Plugs : \E q \in Plugs \ {p} : disconnect(p, q) /\ UNCHANGED connOthers

\* AsciiNode.getConnectAttrCmds of one node: a command (source, destination) for
\* every plug in _connections, the source being otherPlug.source(); partialName
\* of a source that is None raises AttributeError
getConnectAttrCmds(conns, src, node) ==
    IF \E i \in DOMAIN conns[node] : src[conns[node][i]] = None
    THEN [raised |-> "AttributeError", cmds |-> <<>>]
    ELSE [raised |-> None,
          cmds |-> [i \in DOMAIN conns[node] |-> <<src[conns[node][i]], conns[node][i]>>]]

\* no command has been produced yet
CmdStart == ccmds = [ran |-> FALSE, raised |-> None, cmds |-> <<>>, source |-> <<>>]

\* the connectAttr commands of the scene: getConnectAttrCmds of every node
GetConnectAttrCmds ==
    /\ \E r1 \in {getConnectAttrCmds(connections, source, "n1")} :
       \E r2 \in {getConnectAttrCmds(connections, source, "n2")} :
          ccmds' = [ran |-> TRUE,
                    raised |-> IF r1.raised # None THEN r1.raised ELSE r2.raised,
                    cmds |-> IF r1.raised # None \/ r2.raised # None THEN <<>>
                             ELSE r1.cmds \o r2.cmds,
                    source |-> source]
    /\ UNCHANGED <<connVars, cmdOthers>>

(***************************************************************************)
(* The array plug: a top-level array-of-compound plug "wl" whose element   *)
(* schema has one float child "w" (class default 0.0).  __items__ is a     *)
(* Python dict: a sequence of entries in insertion order, keys unique.     *)
(***************************************************************************)

\* stands for None where the code holds an index or None
NoIndex == -1

\* largest logical index the operations are called with
MaxIndex == 3

\* largest size assigned through the size setter
MaxSize == 4

\* number of AsciiPlug element objects that may be constructed
MaxPlugs == 5

\* values given to the float child: 0 stands for 0.0 and 1 for 1.0
Values == {0, 1}

\* AsciiFloat.__default__
FloatDefault == 0

\* sorted(keys): the ascending sequence of a finite set of integers
RECURSIVE SortSet(_)
SortSet(S) ==
    IF S = {} THEN <<>>
    ELSE LET m == CHOOSE x \in S : \A y \in S : x <= y
         IN  <<m>> \o SortSet(S \ {m})

\* the keys of __items__
Keys(els) == {els[k].index : k \in DOMAIN els}

\* AsciiPlug.__init__ for an element plug: a compound whose child data block
\* starts at its default
NewElement(index, id) == [index |-> index, id |-> id, w |-> FloatDefault]

\* SparseArray.__len__ / AsciiPlug.numElements
numElements(els) == Len(els)

\* SparseArray.indices
indices(els) == SortSet(Keys(els))

\* the None that SparseArray.get returns for a missing index
NoElement == [index |-> -1, id |-> -1, w |-> 0]

\* SparseArray.get(index, None)
get(els, index) ==
    IF index \in Keys(els)
    THEN els[CHOOSE k \in DOMAIN els : els[k].index = index]
    ELSE NoElement

\* SparseArray.__setitem__: dict assignment keeps the position of an existing key
\* and appends a new key
setitem(els, index, item) ==
    IF index \in Keys(els)
    THEN [k \in DOMAIN els |-> IF els[k].index = index THEN item ELSE els[k]]
    ELSE Append(els, item)

\* SparseArray.lastIndex
lastIndex(els) == IF Len(els) > 0 THEN indices(els)[Len(els)] ELSE NoIndex

\* SparseArray.isSequential
isSequential(els) == indices(els) = [k \in 1..Len(els) |-> k - 1]

\* SparseArray.nextAvailableIndex: the first physical index that differs from its
\* logical index; without a mismatch, lastIndex() of a non-empty array and 0 of
\* an empty one
nextAvailableIndex(els) ==
    LET idx == indices(els)
        mismatch == {k \in DOMAIN idx : k - 1 # idx[k]}
    IN  IF mismatch # {}
        THEN (CHOOSE k \in mismatch : \A j \in mismatch : k <= j) - 1
        ELSE IF Len(els) > 0 THEN lastIndex(els) ELSE 0

\* elementByLogicalIndex without the lookup: a new plug is constructed and stored
\* whether or not the index exists
elementByLogicalIndexAlwaysCreates(els, index, id) ==
    setitem(els, index, NewElement(index, id))

\* AsciiPlug.elementByLogicalIndex on the array plug: the element found by get,
\* or a newly constructed one stored under the index
elementByLogicalIndex(els, index, id) ==
    IF get(els, index) = NoElement
    THEN setitem(els, index, NewElement(index, id))
    ELSE els

\* the size setter of AsciiPlug on the array plug: for index in
\* range(numElements, size) a newly constructed plug is stored under index
RECURSIVE sizeLoop(_, _, _, _)
sizeLoop(els, index, size, id) ==
    IF index >= size THEN els
    ELSE sizeLoop(setitem(els, index, NewElement(index, id)), index + 1, size, id + 1)

setSize(els, size, id) == sizeLoop(els, numElements(els), size, id)

\* number of plugs the size setter constructs
sizeCreates(els, size) == IF size > numElements(els) THEN size - numElements(els) ELSE 0

\* AsciiPlug.setValue on the child "w" of the element at a logical index
\* (AsciiData.set stores the value)
setValue(els, index, value) ==
    [k \in DOMAIN els |-> IF els[k].index = index THEN [els[k] EXCEPT !.w = value] ELSE els[k]]

(***************************************************************************)
(* Serialisation of the array plug and the re-parse of its commands.  A    *)
(* setAttr statement is a record: the -s flag (NoFlag when absent), the    *)
(* plug path (element index and child name; NoIndex, None when absent), and *)
(* the value tokens.                                                       *)
(***************************************************************************)

NoFlag == -1

\* AsciiNumericData.__dumps__ of AsciiFloat (__size__ 1): str(value)
FloatDumps(value) == IF value = 0 THEN "0.0" ELSE "1.0"

\* AsciiNumericData.__loads__ of AsciiFloat: numpy.array(strings, dtype=float).tolist()
FloatLoads(strings) == [k \in DOMAIN strings |-> IF strings[k] = "0.0" THEN 0 ELSE 1]

\* AsciiData.isNonDefault of the child data block: not isEquivalent(default())
childIsNonDefault(el) == el.w # FloatDefault

\* AsciiPlug.getSetAttrCmds of the scalar child "w" of an element: nothing when
\* non-default filtering is on and the value is the default, else one untyped
\* assignment named by partialName (element index included)
childGetSetAttrCmds(el, nonDefault) ==
    IF nonDefault /\ ~childIsNonDefault(el)
    THEN <<>>
    ELSE <<[s |-> NoFlag, index |-> el.index, child |-> "w", args |-> <<FloatDumps(el.w)>>]>>

\* AsciiPlug.getSetAttrCmds of an element plug (attributeType "compound"): the
\* commands of each child
elementGetSetAttrCmds(el) == childGetSetAttrCmds(el, TRUE)

\* the loop over the physical elements of AsciiPlug.getSetAttrCmds
RECURSIVE physicalLoop(_, _)
physicalLoop(els, i) ==
    IF i >= numElements(els) THEN <<>>
    ELSE elementGetSetAttrCmds(get(els, indices(els)[i + 1])) \o physicalLoop(els, i + 1)

\* AsciiPlug.getSetAttrCmds of the array plug: nothing for an empty array; a size
\* command only when the indices are sequential; then every physical element
getSetAttrCmds(els) ==
    IF numElements(els) = 0 THEN <<>>
    ELSE (IF isSequential(els)
          THEN <<[s |-> numElements(els), index |-> NoIndex, child |-> None, args |-> <<>>]>>
          ELSE <<>>)
         \o physicalLoop(els, 0)

\* AsciiFileParser.setAttr on a graph g = [els, id]: AsciiPlugPath.evaluate
\* resolves (and creates) the plug, the -s flag assigns plugs[0].size (an element
\* plug delegates to its parent, any other plug ignores it), and the packaged
\* values are assigned when there is one value per plug
setAttr(g, cmd) ==
    LET resolved == IF cmd.index = NoIndex THEN g
                    ELSE [els |-> elementByLogicalIndex(g.els, cmd.index, g.id),
                          id |-> IF get(g.els, cmd.index) = NoElement THEN g.id + 1 ELSE g.id]
        sized == IF cmd.s # NoFlag /\ cmd.child = None
                 THEN [els |-> setSize(resolved.els, cmd.s, resolved.id),
                       id |-> resolved.id + sizeCreates(resolved.els, cmd.s)]
                 ELSE resolved
        values == FloatLoads(cmd.args)
    IN  IF Len(cmd.args) > 0 /\ cmd.child = "w" /\ cmd.index # NoIndex /\ Len(values) = 1
        THEN [sized EXCEPT !.els = setValue(sized.els, cmd.index, values[1])]
        ELSE sized

\* AsciiFileParser.__parse__ over the statements, in order
RECURSIVE parse(_, _)
parse(g, cmds) ==
    IF cmds = <<>> THEN g
    ELSE parse(setAttr(g, Head(cmds)), Tail(cmds))

\* a fresh graph: the array plug is created empty on first access
FreshGraph == [els |-> <<>>, id |-> 0]

(***************************************************************************)
(* Operations on the array plug                                            *)
(***************************************************************************)

\* no serialisation has run since the last change of the plug
NoOut == [ran |-> FALSE, cmds |-> <<>>, els |-> <<>>, cmds2 |-> <<>>]

ArrStart ==
    /\ elements = <<>>
    /\ nextId = 0
    /\ last = [op |-> "init", index |-> -1, size |-> -1, ret |-> -1]
    /\ out = NoOut

\* plug.elementByLogicalIndex(index); ret is the identity of the returned plug
ElementByLogicalIndex ==
    \E index \in 0..MaxIndex :
        /\ nextId < MaxPlugs
        /\ elements' = elementByLogicalIndex(elements, index, nextId)
        /\ nextId' = IF get(elements, index) = NoElement THEN nextId + 1 ELSE nextId
        /\ last' = [op |-> "elementByLogicalIndex", index |-> index, size |-> -1,
                    ret |-> get(elements', index).id]
        /\ out' = NoOut
        /\ UNCHANGED arrOthers

\* plug.size = size
SetSize ==
    \E size \in 0..MaxSize :
        /\ nextId + sizeCreates(elements, size) <= MaxPlugs
        /\ elements' = setSize(elements, size, nextId)
        /\ nextId' = nextId + sizeCreates(elements, size)
        /\ last' = [op |-> "size", index |-> -1, size |-> size, ret |-> -1]
        /\ out' = NoOut
        /\ UNCHANGED arrOthers

\* element.child("w").setValue(value) on an existing element
SetValue ==
    \E index \in Keys(elements), value \in Values :
        /\ elements' = setValue(elements, index, value)
        /\ last' = [op |-> "setValue", index |-> index, size |-> -1, ret |-> -1]
        /\ out' = NoOut
        /\ UNCHANGED <<nextId, arrOthers>>

\* plug.nextAvailableIndex()
NextAvailableIndex ==
    /\ last' = [op |-> "nextAvailableIndex", index |-> -1, size |-> -1,
                ret |-> nextAvailableIndex(elements)]
    /\ out' = NoOut
    /\ UNCHANGED <<elements, nextId, arrOthers>>

\* serialise the plug, parse the commands into a fresh graph, serialise that
RoundTrip ==
    LET cmds == getSetAttrCmds(elements)
        reparsed == parse(FreshGraph, cmds).els
    IN  /\ out' = [ran |-> TRUE, cmds |-> cmds, els |-> reparsed, cmds2 |-> getSetAttrCmds(reparsed)]
        /\ last' = [op |-> "getSetAttrCmds", index |-> -1, size |-> -1, ret |-> -1]
        /\ UNCHANGED <<elements, nextId, arrOthers>>

\* AsciiPlug.getValue on the array plug: when the indices are sequential the list
\* of the values of SparseArray.values(), which is __items__.values() (insertion
\* order); else a dict from each index to the element's getValue method, which
\* is not called (called = FALSE: items holds the elements, not their values)
getValue(els) ==
    IF isSequential(els)
    THEN [isDict |-> FALSE, called |-> TRUE, keys |-> <<>>,
          items |-> [k \in DOMAIN els |-> els[k].w]]
    ELSE [isDict |-> TRUE, called |-> FALSE, keys |-> [k \in DOMAIN els |-> els[k].index],
          items |-> [k \in DOMAIN els |-> els[k].id]]

\* getValue() has not been called
ValStart == gv = [ran |-> FALSE, elements |-> <<>>, ret |-> getValue(<<>>)]

\* plug.getValue() on the array plug
GetValue ==
    /\ gv' = [ran |-> TRUE, elements |-> elements, ret |-> getValue(elements)]
    /\ UNCHANGED valOthers

(***************************************************************************)
(* Data blocks and the serialisation of a single plug.  The plug is a leaf *)
(* with one data block (bool, int, float, float2, string, matrix) or the   *)
(* numeric compound "double3", whose three children are float leaves.      *)
(***************************************************************************)

LeafKinds == {"bool", "int", "float", "float2", "string", "matrix"}

Kinds == LeafKinds \cup {"double3"}

\* AsciiMatrix.__default__: the 4x4 identity
Identity == << <<1, 0, 0, 0>>, <<0, 1, 0, 0>>, <<0, 0, 1, 0>>, <<0, 0, 0, 1>> >>

\* a plain matrix that differs from the identity
Translated == << <<1, 0, 0, 0>>, <<0, 1, 0, 0>>, <<0, 0, 1, 0>>, <<1, 0, 0, 1>> >>

\* a matrix value is a list of rows or a transformation dict (isDict)
PlainMatrix(m) == [isDict |-> FALSE, m |-> m]

XformMatrix == [isDict |-> TRUE, m |-> <<>>]

\* the __default__ of the data class that __data_types__ gives the kind
\* (AsciiFloat2.__default__ has three entries)
classDefault(kind) ==
    CASE kind = "bool" -> FALSE
      [] kind = "int" -> 0
      [] kind = "float" -> 0
      [] kind = "float2" -> <<0, 0, 0>>
      [] kind = "string" -> ""
      [] kind = "matrix" -> PlainMatrix(Identity)
      [] kind = "double3" -> <<0, 0, 0>>

\* the values that set() is called with
ValuesOf(kind) ==
    CASE kind = "bool" -> BOOLEAN
      [] kind = "int" -> 0..2
      [] kind = "float" -> {0, 1}
      [] kind = "float2" -> {<<0, 0>>, <<0, 1>>, <<1, 1>>}
      [] kind = "string" -> {"", "a"}
      [] kind = "matrix" -> {PlainMatrix(Identity), PlainMatrix(Translated), XformMatrix}
      [] kind = "double3" -> {<<0, 0, 0>>, <<1, 0, 0>>, <<0, 0, 1>>, <<1, 1, 1>>}

\* the attributes of the data model: a kind, the storable flag and an optional
\* default-value override (-dv) on the numeric leaves
Attributes ==
    {[kind |-> k, storable |-> st, hasDefault |-> FALSE, dv |-> classDefault(k)] :
        k \in Kinds, st \in BOOLEAN}
    \cup {[kind |-> k, storable |-> TRUE, hasDefault |-> TRUE, dv |-> d] :
        k \in {"int", "float"}, d \in {0, 1}}

\* AsciiData.default: the attribute's defaultValue when it is not None, else the
\* class default; type(default)(default) keeps the value
default(attr) == IF attr.hasDefault THEN attr.dv ELSE classDefault(attr.kind)

\* AsciiData.isEquivalent
isEquivalent(val, other) == val = other

\* AsciiMatrix.isTransformation
isTransformation(val) == val.isDict

\* AsciiData.isNonDefault, and its override AsciiMatrix.isNonDefault
isNonDefault(attr, val) ==
    IF attr.kind = "matrix"
    THEN IF ~isTransformation(val) THEN val = classDefault("matrix") ELSE TRUE
    ELSE ~isEquivalent(val, default(attr))

\* AsciiPlug.isNonDefault: any child of a compound, else the data block's flag
plugIsNonDefault(attr, val) ==
    IF attr.kind = "double3"
    THEN \E k \in DOMAIN val : isNonDefault([attr EXCEPT !.kind = "float"], val[k])
    ELSE isNonDefault(attr, val)

\* AsciiAttribute.isTyped: the attribute was declared with -dt, as the string and
\* matrix data types are
isTyped(attr) == attr.kind \in {"string", "matrix"}

\* str() of the numbers of the model
Str(n) == CASE n = 0 -> "0" [] n = 1 -> "1" [] n = 2 -> "2" [] n = 3 -> "3" [] n = 4 -> "4"

StrFloat(n) == CASE n = 0 -> "0.0" [] n = 1 -> "1.0"

\* ' '.join(map(str, chain(*rows))) as a token sequence
RECURSIVE JoinRows(_)
JoinRows(rows) ==
    IF rows = <<>> THEN <<>>
    ELSE [k \in DOMAIN Head(rows) |-> StrFloat(Head(rows)[k])] \o JoinRows(Tail(rows))

TypeError == <<"TypeError">>

\* AsciiData.writeAscii: __dumps__(get()) of the kind's class, as tokens.
\* AsciiNumericData.__dumps__ with __size__ > 1 joins the floats themselves:
\* TypeError
writeAscii(attr, val) ==
    CASE attr.kind = "bool" -> <<IF val THEN "true" ELSE "false">>
      [] attr.kind = "int" -> <<Str(val)>>
      [] attr.kind = "float" -> <<StrFloat(val)>>
      [] attr.kind = "float2" -> TypeError
      [] attr.kind = "string" -> <<"\"" \o val \o "\"">>
      [] attr.kind = "matrix" -> IF val.isDict THEN <<"\"xform\"">> ELSE JoinRows(val.m)

\* AsciiPlug.getSetAttrCmds of the single plug: nothing when not storable; a
\* numeric compound always gives one command with all child values; a leaf gives
\* nothing when filtering is on and isNonDefault is false, else one assignment
plugGetSetAttrCmds(attr, val, nonDefault) ==
    IF ~attr.storable THEN [raised |-> None, cmds |-> <<>>]
    ELSE IF attr.kind = "double3"
    THEN [raised |-> None,
          cmds |-> <<[type |-> "double3", args |-> [k \in DOMAIN val |-> StrFloat(val[k])]]>>]
    ELSE IF nonDefault /\ ~plugIsNonDefault(attr, val)
    THEN [raised |-> None, cmds |-> <<>>]
    ELSE IF writeAscii(attr, val) = TypeError
    THEN [raised |-> "TypeError", cmds |-> <<>>]
    ELSE [raised |-> None,
          cmds |-> <<[type |-> IF isTyped(attr) THEN attr.kind ELSE None,
                      args |-> writeAscii(attr, val)]>>]

NoDout == [ran |-> FALSE, raised |-> None, cmds |-> <<>>]

\* AsciiPlug.__init__ / AsciiData.__init__: the value starts at default()
DataStartWith(attr) ==
    /\ attribute = attr
    /\ blockValue = default(attr)
    /\ dcall = [op |-> "init", ret |-> FALSE, fresh |-> TRUE]
    /\ dout = NoDout

DataStart == \E attr \in Attributes : DataStartWith(attr)

\* the data model at rest, for the specifications that do not use it
DataIdle == DataStartWith([kind |-> "float", storable |-> TRUE, hasDefault |-> FALSE, dv |-> 0])

\* AsciiData.set(value) (AsciiPlug.setValue on the single plug)
Set ==
    \E v \in ValuesOf(attribute.kind) :
        /\ blockValue' = v
        /\ dcall' = [op |-> "set", ret |-> FALSE, fresh |-> FALSE]
        /\ dout' = NoDout
        /\ UNCHANGED <<attribute, dataOthers>>

\* AsciiData.isNonDefault() of a leaf's data block
IsNonDefault ==
    /\ attribute.kind \in LeafKinds
    /\ dcall' = [op |-> "isNonDefault", ret |-> isNonDefault(attribute, blockValue),
                 fresh |-> dcall.fresh]
    /\ UNCHANGED <<attribute, blockValue, dout, dataOthers>>

\* plug.getSetAttrCmds() with the default non-default filtering
GetSetAttrCmds ==
    LET r == plugGetSetAttrCmds(attribute, blockValue, TRUE)
    IN  /\ dout' = [ran |-> TRUE, raised |-> r.raised, cmds |-> r.cmds]
        /\ dcall' = [op |-> "getSetAttrCmds", ret |-> FALSE, fresh |-> dcall.fresh]
        /\ UNCHANGED <<attribute, blockValue, dataOthers>>

(***************************************************************************)
(* The codecs of the data kinds: AsciiData.writeAscii gives the text of a  *)
(* value, AsciiArgParser.split turns the text of a statement into dequoted *)
(* tokens, AsciiData.readAscii turns tokens into a list of values.         *)
(***************************************************************************)

\* longest counted array that is encoded
MaxArrayLen == 3

CodecKinds == {"bool", "int", "float", "float2", "string", "matrix", "intArray"}

\* the strings that are encoded
Strings == {"", "a", "a b"}

\* the sequences over S of length at most n
SeqsUpTo(S, n) == UNION {[1..k -> S] : k \in 0..n}

\* a transformation dict; of its thirteen entries the vectors stay at zero
Xform(rotateOrder, compensateForParentScale) ==
    [isDict |-> TRUE, m |-> <<>>, rotateOrder |-> rotateOrder,
     compensateForParentScale |-> compensateForParentScale]

\* the values of each kind that are encoded
CodecValues(kind) ==
    CASE kind = "bool" -> BOOLEAN
      [] kind = "int" -> 0..2
      [] kind = "float" -> {0, 1}
      [] kind = "float2" -> {<<0, 0>>, <<0, 1>>, <<1, 1>>}
      [] kind = "string" -> Strings
      [] kind = "matrix" -> {PlainMatrix(Identity), PlainMatrix(Translated)}
                            \cup {Xform(r, c) : r \in 0..2, c \in BOOLEAN}
      [] kind = "intArray" -> SeqsUpTo({0, 1}, MaxArrayLen)

\* str(bool)
StrBool(b) == IF b THEN "True" ELSE "False"

\* n tokens "0.0"
Zeros(n) == [k \in 1..n |-> "0.0"]

\* __dumps__ of the kind's class as the token sequence of its text.
\* AsciiMatrix.__dumps__ of a dict: "xform", scale, rotate, rotateOrder, the
\* remaining vectors, compensateForParentScale (38 tokens).
\* AsciiIntArray.__dumps__: the count, then the integers
dumps(kind, val) ==
    CASE kind = "matrix" /\ val.isDict ->
            <<"\"xform\"">> \o Zeros(6) \o <<Str(val.rotateOrder)>> \o Zeros(29)
            \o <<StrBool(val.compensateForParentScale)>>
      [] kind = "intArray" -> <<Str(Len(val))>> \o [k \in DOMAIN val |-> Str(val[k])]
      [] kind \in {"stringArray", "componentList"} ->
            <<Str(Len(val))>> \o [k \in DOMAIN val |-> "\"" \o val[k] \o "\""]
      [] OTHER -> writeAscii([kind |-> kind], val)

\* the text between the quotes of the tokens that dumps quotes
Quoted == Strings \cup {"xform"}

\* AsciiArgParser.dequote: a token that starts and ends with a quote loses both
dequote(token) ==
    IF \E v \in Quoted : token = "\"" \o v \o "\""
    THEN CHOOSE v \in Quoted : token = "\"" \o v \o "\""
    ELSE token

\* AsciiArgParser.split: every token of the text, dequoted
split(tokens) == [k \in DOMAIN tokens |-> dequote(tokens[k])]

\* int(string)
IntOf(string) == CASE string = "0" -> 0 [] string = "1" -> 1 [] string = "2" -> 2 [] string = "3" -> 3
                   [] string = "4" -> 4

\* float(string)
FloatOf(string) == IF string = "0.0" THEN 0 ELSE 1

\* ''.join(strings)
RECURSIVE JoinStrings(_)
JoinStrings(strings) ==
    IF strings = <<>> THEN "" ELSE Head(strings) \o JoinStrings(Tail(strings))

\* __loads__ of the kind's class: the list of values read from the tokens.
\* AsciiBool looks the token up in __states__; AsciiNumericData converts through
\* numpy (reshaped into rows of __size__ entries when __size__ > 1); AsciiString
\* joins the tokens; AsciiMatrix reads 16 tokens as 4 rows and 38 tokens as a
\* transformation dict, rotateOrder = int(strings[7]),
\* compensateForParentScale = bool(strings[37]), and raises ValueError for any
\* other count; AsciiIntArray reads the count, then that many integers (IndexError
\* when they are not there); AsciiStringArray and AsciiComponentList return
\* strings[1:]; AsciiGeneric returns no value
loads(kind, strings) ==
    CASE kind = "bool" ->
            [raised |-> None, result |-> [k \in DOMAIN strings |-> strings[k] \in {"on", "yes", "true"}]]
      [] kind = "int" ->
            [raised |-> None, result |-> [k \in DOMAIN strings |-> IntOf(strings[k])]]
      [] kind = "float" ->
            [raised |-> None, result |-> FloatLoads(strings)]
      [] kind = "float2" ->
            [raised |-> None,
             result |-> [r \in 1..(Len(strings) \div 2) |->
                            <<FloatOf(strings[2 * r - 1]), FloatOf(strings[2 * r])>>]]
      [] kind = "string" ->
            [raised |-> None, result |-> <<JoinStrings(strings)>>]
      [] kind = "matrix" ->
            IF Len(strings) = 16
            THEN [raised |-> None,
                  result |-> <<PlainMatrix([r \in 1..4 |->
                                  [c \in 1..4 |-> FloatOf(strings[4 * (r - 1) + c])]])>>]
            ELSE IF Len(strings) = 38
            THEN [raised |-> None,
                  result |-> <<Xform(IntOf(strings[8]), strings[38] # "")>>]
            ELSE [raised |-> "ValueError", result |-> <<>>]
      [] kind = "intArray" ->
            IF IntOf(strings[1]) >= Len(strings)
            THEN [raised |-> "IndexError", result |-> <<>>]
            ELSE [raised |-> None,
                  result |-> <<[i \in 1..IntOf(strings[1]) |-> IntOf(strings[i + 1])]>>]
      [] kind \in {"stringArray", "componentList"} ->
            [raised |-> None, result |-> <<Tail(strings)>>]
      [] kind = "generic" ->
            [raised |-> None, result |-> <<>>]

CodecStartWith(kind, val) ==
    codec = [kind |-> kind, value |-> val, op |-> "init", raised |-> None,
             tokens |-> <<>>, result |-> <<>>]

CodecStart == \E kind \in CodecKinds : \E val \in CodecValues(kind) : CodecStartWith(kind, val)

\* the codec model at rest, for the specifications that do not use it
CodecIdle == CodecStartWith("bool", FALSE)

\* block.writeAscii(), and the split of the statement that holds its text
WriteAscii ==
    /\ codec.op = "init"
    /\ LET text == dumps(codec.kind, codec.value)
       IN  codec' = IF text = TypeError
                    THEN [codec EXCEPT !.op = "writeAscii", !.raised = "TypeError"]
                    ELSE [codec EXCEPT !.op = "writeAscii", !.tokens = split(text)]
    /\ UNCHANGED codecOthers

\* readAscii(tokens) of the kind's class
ReadAscii ==
    /\ codec.op = "writeAscii"
    /\ codec.raised = None
    /\ LET r == loads(codec.kind, codec.tokens)
       IN  codec' = [codec EXCEPT !.op = "readAscii", !.raised = r.raised, !.result = r.result]
    /\ UNCHANGED codecOthers

\* the kinds whose text starts with the count of the items that follow
ArrayKinds == {"intArray", "stringArray", "componentList"}

\* the token sequences that are decoded: a state word for a bool, the payload of a
\* generic typed attribute, a count followed by at least that many items
DecodeTokens(kind) ==
    CASE kind = "bool" -> {<<t>> : t \in {"on", "yes", "true", "off", "no", "false", "maybe"}}
      [] kind = "generic" -> {<<"0">>, <<"1", "0">>}
      [] OTHER -> {<<Str(n)>> \o items : n \in 0..MaxArrayLen,
                                         items \in SeqsUpTo({"0", "1"}, MaxArrayLen)}

\* readAscii(tokens) of the kind's class on the arguments of a setAttr statement
Decode ==
    /\ codec.op = "init"
    /\ \E kind \in {"bool", "generic"} \cup ArrayKinds : \E tokens \in DecodeTokens(kind) :
          \E r \in {loads(kind, tokens)} :
              codec' = [codec EXCEPT !.kind = kind, !.op = "decode", !.tokens = tokens,
                                     !.raised = r.raised, !.result = r.result]
    /\ UNCHANGED codecOthers

(***************************************************************************)
(* Plug paths on the array plug: ".wl" with an optional index or slice,    *)
(* optionally followed by its child ".w" with an optional index or slice.  *)
(* A path is the sequence of its segments' indices.                        *)
(***************************************************************************)

\* largest logical index written in a path
MaxPathIndex == 1

\* number of AsciiPlug element objects that may exist when a path is in use
MaxPathPlugs == 3

\* AsciiPlugPath.expandIndex: None for an empty string, an int, or
\* slice(start, stop, 1)
NoSegmentIndex == [kind |-> "none", start |-> -1, stop |-> -1]

IntIndex(i) == [kind |-> "int", start |-> i, stop |-> -1]

Slice(start, stop) == [kind |-> "slice", start |-> start, stop |-> stop]

\* the indices written on the first segment and on the last of two segments
FirstIndexes ==
    {NoSegmentIndex} \cup {IntIndex(i) : i \in 0..MaxPathIndex}
    \cup {Slice(a, b) : a \in 0..MaxPathIndex, b \in 0..MaxPathIndex}

LastIndexes == {NoSegmentIndex, IntIndex(0), Slice(0, 1)}

\* AsciiPlugPath.isSingle
isSingle(segments) == \A k \in DOMAIN segments : segments[k].kind # "slice"

\* AsciiPlugPath.isArray
isArray(segments) == segments[Len(segments)].kind = "slice"

\* AsciiPlugPath.isCompoundArray (type() calls it on paths of two segments only:
\* a path of one segment is single or array)
isCompoundArray(segments) ==
    /\ segments[Len(segments)].kind = "none"
    /\ segments[Len(segments) - 1].kind = "slice"

\* AsciiPlugPath.type
type(segments) ==
    IF isSingle(segments) THEN [raised |-> None, ret |-> "kSingle"]
    ELSE IF isArray(segments) THEN [raised |-> None, ret |-> "kArray"]
    ELSE IF isCompoundArray(segments) THEN [raised |-> None, ret |-> "kCompoundArray"]
    ELSE [raised |-> "RuntimeError", ret |-> None]

\* references to plugs: the array plug, an element, the child "w" of an element
ArrayPlug == [level |-> "array", id |-> -1]

ElementPlug(id) == [level |-> "element", id |-> id]

ChildPlug(id) == [level |-> "child", id |-> id]

\* the value of F at x, x being computed once
Bind(x, F(_)) == CHOOSE r \in {F(v) : v \in {x}} : TRUE

\* AsciiPlug.__getitem__(int) on a graph g = [els, id]: elementByLogicalIndex on
\* the array plug, child(key) on any other plug (TypeError on a plug that is not
\* compound, IndexError past the one child of an element)
getitem(g, plug, key) ==
    IF plug.level = "array"
    THEN Bind(elementByLogicalIndex(g.els, key, g.id), LAMBDA els :
            [g |-> [els |-> els,
                    id |-> IF get(g.els, key) = NoElement THEN g.id + 1 ELSE g.id],
             plug |-> ElementPlug(get(els, key).id), raised |-> None])
    ELSE IF plug.level = "element"
    THEN IF key = 0
         THEN [g |-> g, plug |-> ChildPlug(plug.id), raised |-> None]
         ELSE [g |-> g, plug |-> plug, raised |-> "IndexError"]
    ELSE [g |-> g, plug |-> plug, raised |-> "TypeError"]

\* AsciiPlug.__getitem__(slice): [self.__getitem__(i) for i in range(key, stop)]
RECURSIVE getitemRange(_, _, _, _)
getitemRange(g, plug, key, stop) ==
    IF key >= stop THEN [g |-> g, plugs |-> <<>>, raised |-> None]
    ELSE Bind(getitem(g, plug, key), LAMBDA one :
            IF one.raised # None
            THEN [g |-> one.g, plugs |-> <<>>, raised |-> one.raised]
            ELSE Bind(getitemRange(one.g, plug, key + 1, stop), LAMBDA rest :
                    [g |-> rest.g, plugs |-> <<one.plug>> \o rest.plugs,
                     raised |-> rest.raised]))

\* AsciiPlug.__getitem__ with the index of a segment: an int gives one plug, a
\* slice the plugs of range(start, stop + 1, 1), None the plug itself
getitemIndex(g, plug, index) ==
    IF index.kind = "int"
    THEN Bind(getitem(g, plug, index.start), LAMBDA one :
            [g |-> one.g, plugs |-> IF one.raised = None THEN <<one.plug>> ELSE <<>>,
             raised |-> one.raised])
    ELSE IF index.kind = "slice"
    THEN getitemRange(g, plug, index.start, index.stop + 1)
    ELSE [g |-> g, plugs |-> <<plug>>, raised |-> None]

\* one level of AsciiPlugPath.evaluate below the first: plug[attribute][index] for
\* every plug of the level above, chained; attribute "w" is child 0
RECURSIVE evaluateLevel(_, _, _)
evaluateLevel(g, plugs, index) ==
    IF plugs = <<>> THEN [g |-> g, plugs |-> <<>>, raised |-> None]
    ELSE Bind(getitem(g, Head(plugs), 0), LAMBDA child :
            IF child.raised # None
            THEN [g |-> child.g, plugs |-> <<>>, raised |-> child.raised]
            ELSE Bind(getitemIndex(child.g, child.plug, index), LAMBDA these :
                    IF these.raised # None
                    THEN [g |-> these.g, plugs |-> <<>>, raised |-> these.raised]
                    ELSE Bind(evaluateLevel(these.g, Tail(plugs), index), LAMBDA rest :
                            [g |-> rest.g, plugs |-> these.plugs \o rest.plugs,
                             raised |-> rest.raised])))

\* the walk of AsciiPlugPath.evaluate over the segments
walk(segments, g) ==
    Bind(getitemIndex(g, ArrayPlug, segments[1]), LAMBDA top :
        IF Len(segments) = 1 \/ top.raised # None THEN top
        ELSE evaluateLevel(top.g, top.plugs, segments[2]))

NoCache == [set |-> FALSE, plugs |-> <<>>]

\* AsciiPlugPath.evaluate without the redundancy check: every call walks
evaluateAlwaysWalks(segments, cached, g) ==
    Bind(walk(segments, g), LAMBDA r :
        [g |-> r.g, plugs |-> r.plugs, raised |-> r.raised,
         cache |-> IF r.raised = None THEN [set |-> TRUE, plugs |-> r.plugs] ELSE cached])

\* AsciiPlugPath.evaluate: the cache when there is one, else the walk, whose
\* result is cached (an exception leaves the path without cache)
evaluate(segments, cached, g) ==
    IF cached.set
    THEN [g |-> g, plugs |-> cached.plugs, raised |-> None, cache |-> cached]
    ELSE Bind(walk(segments, g), LAMBDA r :
            [g |-> r.g, plugs |-> r.plugs, raised |-> r.raised,
             cache |-> IF r.raised = None THEN [set |-> TRUE, plugs |-> r.plugs] ELSE cached])

NoType == [ran |-> FALSE, raised |-> None, ret |-> None]

\* AsciiPlugPath.__init__ with the given segments
PathStartWith(segments) ==
    /\ path = segments
    /\ cache = NoCache
    /\ pcall = [op |-> "init", raised |-> None, plugs |-> <<>>, cached |-> FALSE,
                created |-> 0, changed |-> FALSE, before |-> {}, first |-> <<>>]
    /\ ptype = NoType

PathStart ==
    \/ \E a \in FirstIndexes : PathStartWith(<<a>>)
    \/ \E a \in FirstIndexes : \E b \in LastIndexes : PathStartWith(<<a, b>>)

\* the path model at rest, for the specifications that do not use it
PathIdle == PathStartWith(<<NoSegmentIndex>>)

\* path.type()
Type ==
    /\ ~ptype.ran
    /\ ptype' = [ran |-> TRUE, raised |-> type(path).raised, ret |-> type(path).ret]
    /\ UNCHANGED <<path, cache, pcall, arrVars, pathOthers>>

\* path.evaluate() on the array plug
Evaluate ==
    \E r \in {evaluate(path, cache, [els |-> elements, id |-> nextId])} :
        /\ r.g.id <= MaxPathPlugs
        /\ elements' = r.g.els
        /\ nextId' = r.g.id
        /\ cache' = r.cache
        /\ pcall' = [op |-> "evaluate", raised |-> r.raised, plugs |-> r.plugs,
                     cached |-> cache.set, created |-> r.g.id - nextId,
                     changed |-> r.g.els # elements,
                     before |-> Keys(elements),
                     first |-> IF cache.set THEN pcall.first ELSE r.plugs]
        /\ last' = [op |-> "evaluate", index |-> -1, size |-> -1, ret |-> -1]
        /\ out' = NoOut
        /\ UNCHANGED <<path, ptype, pathOthers>>

\* the graph is mutated while the path is in use: an element is added, the
\* array is grown, a value is set
PathElementByLogicalIndex == nextId < MaxPathPlugs /\ ElementByLogicalIndex

PathSetSize == nextId < MaxPathPlugs /\ SetSize /\ nextId' <= MaxPathPlugs

PathSetValue == SetValue

(***************************************************************************)
(* The registry of a scene: nodes by hash code, and the indices of their   *)
(* namespace:name keys and UUIDs.  A dict is a function on its keys.        *)
(***************************************************************************)

\* number of nodes that may be created
MaxNodes == 2

\* hashCode() of the nodes, in order of creation; 0 is the default of the lookups
HashCodes == 1..MaxNodes

\* the names, namespaces and UUIDs the operations are called with
NodeNames == {"", "x", "y"}

Namespaces == {"", "a"}

GivenUuids == {"", "u1"}

\* the values om.MUuid().generate() can give
GeneratedUuids == {"u1", "u2", "u3"}

\* dict.get(key, missing)
DictGet(dict, key, missing) == IF key \in DOMAIN dict THEN dict[key] ELSE missing

\* del dict[key]
DictDel(dict, key) == [k \in DOMAIN dict \ {key} |-> dict[k]]

\* dict[key] = item
DictSet(dict, key, item) == [k \in DOMAIN dict \cup {key} |-> IF k = key THEN item ELSE dict[k]]

\* f'{namespace}:{name}'
AbsoluteName(namespace, name) == namespace \o ":" \o name

\* AsciiNode.nameChanged on a registry r = [nodes, names, uuids]: the old key is
\* deleted when it maps to this node, the new key is assigned this node
nameChanged(r, hashCode, oldName, newName) ==
    LET namespace == r.nodes[hashCode].namespace
        old == AbsoluteName(namespace, oldName)
        kept == IF DictGet(r.names, old, 0) = hashCode THEN DictDel(r.names, old) ELSE r.names
    IN  [r EXCEPT !.names = DictSet(kept, AbsoluteName(namespace, newName), hashCode)]

\* the setter of AsciiNode.name (stripAll keeps a name without '|' and ':')
setName(r, hashCode, name) ==
    LET oldName == r.nodes[hashCode].name
    IN  IF name # oldName
        THEN nameChanged([r EXCEPT !.nodes[hashCode].name = name], hashCode, oldName, name)
        ELSE r

\* AsciiNode.namespaceChanged
namespaceChanged(r, hashCode, oldNamespace, newNamespace) ==
    LET name == r.nodes[hashCode].name
        old == AbsoluteName(oldNamespace, name)
        kept == IF DictGet(r.names, old, 0) = hashCode THEN DictDel(r.names, old) ELSE r.names
    IN  [r EXCEPT !.names = DictSet(kept, AbsoluteName(newNamespace, name), hashCode)]

\* the setter of AsciiNode.namespace
setNamespace(r, hashCode, namespace) ==
    LET oldNamespace == r.nodes[hashCode].namespace
        newNamespace == IF namespace = ":" THEN "" ELSE namespace
    IN  IF newNamespace # oldNamespace
        THEN namespaceChanged([r EXCEPT !.nodes[hashCode].namespace = newNamespace],
                              hashCode, oldNamespace, newNamespace)
        ELSE r

\* AsciiRegistry.hasUUID
hasUUID(r, uuid) == uuid \in DOMAIN r.uuids

\* AsciiRegistry.generateUUID(uuid): the given UUID unless it is in use, else a
\* generated one that is not in use
generateUUID(r, uuid, generated) == IF hasUUID(r, uuid) THEN generated ELSE uuid

\* AsciiNode.uuidChanged
uuidChanged(r, hashCode, oldUUID, newUUID) ==
    LET kept == IF DictGet(r.uuids, oldUUID, 0) = hashCode THEN DictDel(r.uuids, oldUUID) ELSE r.uuids
    IN  [r EXCEPT !.uuids = DictSet(kept, newUUID, hashCode)]

\* the setter of AsciiNode.uuid
setUuid(r, hashCode, uuid, generated) ==
    LET newUUID == generateUUID(r, uuid, generated)
        oldUUID == r.nodes[hashCode].uuid
    IN  IF newUUID # oldUUID
        THEN uuidChanged([r EXCEPT !.nodes[hashCode].uuid = newUUID], hashCode, oldUUID, newUUID)
        ELSE r

\* AsciiNode.__init__: the fields start empty, then the name, the namespace and
\* the UUID are assigned through the setters; AsciiScene.createNode stores the
\* node under its hash code
createNode(r, hashCode, name, namespace, uuid, generated) ==
    LET new == [r EXCEPT !.nodes = DictSet(r.nodes, hashCode,
                                           [name |-> "", namespace |-> "", uuid |-> ""])]
    IN  setUuid(setNamespace(setName(new, hashCode, name), hashCode, namespace),
                hashCode, uuid, generated)

\* AsciiRegistry.getNodeByName: the hash code found under the name (0 when none)
getNodeByName(r, name) == DictGet(r.names, name, 0)

Registry == [nodes |-> nodes, names |-> names, uuids |-> uuids]

\* AsciiRegistry.__init__
RegStart ==
    /\ nodes = <<>>
    /\ names = <<>>
    /\ uuids = <<>>
    /\ rcall = [op |-> "init", node |-> 0]

\* scene.createNode / AsciiNode(typeName, name, namespace, uuid)
CreateNode ==
    \E name \in NodeNames : \E namespace \in Namespaces : \E uuid \in GivenUuids :
    \E generated \in GeneratedUuids \ DOMAIN uuids :
        LET hashCode == Cardinality(DOMAIN nodes) + 1
            r == createNode(Registry, hashCode, name, namespace, uuid, generated)
        IN  /\ hashCode \in HashCodes
            /\ nodes' = r.nodes
            /\ names' = r.names
            /\ uuids' = r.uuids
            /\ rcall' = [op |-> "createNode", node |-> hashCode]
            /\ UNCHANGED regOthers

\* node.name = name
SetName ==
    \E hashCode \in DOMAIN nodes : \E name \in NodeNames :
        LET r == setName(Registry, hashCode, name)
        IN  /\ nodes' = r.nodes
            /\ names' = r.names
            /\ rcall' = [op |-> "name", node |-> hashCode]
            /\ UNCHANGED <<uuids, regOthers>>

\* node.namespace = namespace
SetNamespace ==
    \E hashCode \in DOMAIN nodes : \E namespace \in Namespaces :
        LET r == setNamespace(Registry, hashCode, namespace)
        IN  /\ nodes' = r.nodes
            /\ names' = r.names
            /\ rcall' = [op |-> "namespace", node |-> hashCode]
            /\ UNCHANGED <<uuids, regOthers>>

\* node.uuid = uuid
SetUuid ==
    \E hashCode \in DOMAIN nodes : \E uuid \in GivenUuids :
    \E generated \in GeneratedUuids \ DOMAIN uuids :
        LET r == setUuid(Registry, hashCode, uuid, generated)
        IN  /\ nodes' = r.nodes
            /\ uuids' = r.uuids
            /\ rcall' = [op |-> "uuid", node |-> hashCode]
            /\ UNCHANGED <<names, regOthers>>

(***************************************************************************)
(* The node hierarchy: each node's parent reference and its list of        *)
(* children, a NotifyList whose itemAdded / itemRemoved callbacks are the   *)
(* node's childAdded / childRemoved.  A tree t is [parent, children]; an    *)
(* operation returns the tree it leaves and the exception it raised.       *)
(***************************************************************************)

\* number of nodes of the hierarchy
MaxTreeNodes == 3

\* the nodes; 0 stands for None
TreeNodes == 1..MaxTreeNodes

RECURSIVE setParent(_, _, _)
RECURSIVE parentChanged(_, _, _, _)
RECURSIVE childrenRemove(_, _, _)

\* AsciiNode.childRemoved: child.parent = None
childRemoved(t, child) == setParent(t, child, 0)

\* NotifyList.remove(child): pop(index(child)); index raises ValueError when the
\* child is not in the list, pop removes the item and notifies itemRemoved
childrenRemove(t, node, child) ==
    IF child \notin Range(t.children[node])
    THEN [t |-> t, raised |-> "ValueError"]
    ELSE childRemoved([t EXCEPT !.children[node] = ListRemove(@, child)], child)

\* AsciiNode.childAdded: child.parent = self unless it is this node already
childAdded(t, node, child) ==
    IF t.parent[child] # node THEN setParent(t, child, node)
    ELSE [t |-> t, raised |-> None]

\* NotifyList.appendIfUnique(child): append unless the child is in the list;
\* append notifies itemAdded, which is the node's childAdded
childrenAppendIfUnique(t, node, child) ==
    IF child \in Range(t.children[node])
    THEN [t |-> t, raised |-> None]
    ELSE childAdded([t EXCEPT !.children[node] = Append(@, child)], node, child)

\* AsciiNode.parentChanged: the node is removed from the children of the old
\* parent, then appended to the children of the new one
parentChanged(t, node, oldParent, newParent) ==
    LET removed == IF oldParent # 0
                   THEN childrenRemove(t, oldParent, node)
                   ELSE [t |-> t, raised |-> None]
    IN  IF removed.raised # None THEN removed
        ELSE IF newParent # 0 THEN childrenAppendIfUnique(removed.t, newParent, node)
        ELSE removed

\* the setter of AsciiNode.parent: nothing when the parent is the current one,
\* else the reference is assigned and parentChanged is called
setParent(t, node, newParent) ==
    IF newParent = t.parent[node]
    THEN [t |-> t, raised |-> None]
    ELSE parentChanged([t EXCEPT !.parent[node] = newParent], node, t.parent[node], newParent)

\* AsciiTreeMixin.iterParents of a node yields the other within the given number
\* of steps
RECURSIVE IsAncestor(_, _, _, _)
IsAncestor(t, node, other, steps) ==
    IF t.parent[node] = 0 \/ steps = 0 THEN FALSE
    ELSE t.parent[node] = other \/ IsAncestor(t, t.parent[node], other, steps - 1)

Tree == [parent |-> parent, children |-> children]

\* AsciiNode.__init__ of every node: no parent, no children
TreeStart ==
    /\ parent = [n \in TreeNodes |-> 0]
    /\ children = [n \in TreeNodes |-> <<>>]
    /\ tcall = [op |-> "init", node |-> 0, oldParent |-> 0, newParent |-> 0,
                raised |-> None, cyclic |-> FALSE, before |-> Tree]

\* node.parent = newParent (a node or None)
SetParent ==
    \E node \in TreeNodes : \E newParent \in TreeNodes \cup {0} :
        LET r == setParent(Tree, node, newParent)
        IN  /\ parent' = r.t.parent
            /\ children' = r.t.children
            /\ tcall' = [op |-> "parent", node |-> node, oldParent |-> parent[node],
                         newParent |-> newParent, raised |-> r.raised,
                         cyclic |-> (newParent = node
                                     \/ (newParent # 0
                                         /\ IsAncestor(Tree, newParent, node, MaxTreeNodes))),
                         before |-> Tree]
            /\ UNCHANGED treeOthers

(***************************************************************************)
(* The file parser: AsciiFileParser.__init__ runs __parse__ inside one      *)
(* try / except that logs the exception; __parse__ reads the file line by    *)
(* line and hands each command line to the delegate named by its keyword.   *)
(* The command lines considered hold one statement each.                    *)
(***************************************************************************)

\* number of lines of the file
MaxStatements == 3

\* AsciiFileParser.__comment__
Comment == "//"

\* a line: its first word and its arguments
Line(keyword, arguments) == [keyword |-> keyword, arguments |-> arguments]

\* the lines of the files: a comment, two well-formed fileInfo statements, a
\* fileInfo statement with its value missing and a statement whose keyword
\* names no delegate
Lines ==
    {Line(Comment, <<>>), Line("fileInfo", <<"a", "1">>), Line("fileInfo", <<"b", "2">>),
     Line("fileInfo", <<"a">>), Line("bogus", <<"a", "1">>)}

\* the delegates of AsciiFileParser that the lines name
Delegates == {"fileInfo"}

\* AsciiFileParser.fileInfo on a scene's fileInfo: parser[0] and parser[1] are
\* read (IndexError when an argument is missing), then fileInfo[key] = value
fileInfoDelegate(info, arguments) ==
    IF Len(arguments) < 2 THEN [info |-> info, raised |-> "IndexError"]
    ELSE [info |-> DictSet(info, arguments[1], arguments[2]), raised |-> None]

\* getattr(self.__class__, parser.name) followed by func(self, parser)
dispatch(info, line) ==
    IF line.keyword \notin Delegates THEN [info |-> info, raised |-> "AttributeError"]
    ELSE fileInfoDelegate(info, line.arguments)

\* lines appended to the buffer that the model tells apart
MaxAppended == 2

\* the file ends with a statement that has no delimiter
Unterminated(lines, ends) ==
    ~ends /\ lines # <<>> /\ lines[Len(lines)].keyword # Comment

ParserStartWith(lines, ends) ==
    /\ statements = lines
    /\ lineNumber = 0
    /\ fileInfo = <<>>
    /\ applied = {}
    /\ logged = ""
    /\ delimited = ends
    /\ appended = 0

ParserIdle == ParserStartWith(<<>>, TRUE)

\* a file of statements; its last statement may lack the delimiter
ParserStart ==
    \E lines \in SeqsUpTo(Lines, MaxStatements) : \E ends \in BOOLEAN :
        /\ ends \/ Unterminated(lines, ends)
        /\ ParserStartWith(lines, ends)

\* readline() returns the empty string: the loop ends and the end of the file is
\* logged
ParseEof ==
    /\ logged = ""
    /\ lineNumber = Len(statements)
    /\ logged' = "EOF"
    /\ UNCHANGED <<statements, lineNumber, fileInfo, applied, delimited, appended, parserOthers>>

\* a comment line is skipped
ParseComment ==
    /\ logged = ""
    /\ lineNumber < Len(statements)
    /\ statements[lineNumber + 1].keyword = Comment
    /\ lineNumber' = lineNumber + 1
    /\ UNCHANGED <<statements, fileInfo, applied, logged, delimited, appended, parserOthers>>

\* the inner loop of __parse__ on a statement without delimiter at the end of the
\* file: readline() returns the empty string, a blank is appended to the buffer,
\* which still does not end with the delimiter, and the loop goes on; the
\* appended lines are counted up to MaxAppended
ParseAppend ==
    /\ logged = ""
    /\ lineNumber + 1 = Len(statements)
    /\ Unterminated(statements, delimited)
    /\ appended' = IF appended < MaxAppended THEN appended + 1 ELSE appended
    /\ UNCHANGED <<statements, lineNumber, fileInfo, applied, logged, delimited, parserOthers>>

\* a command line that ends with the delimiter is handed to its delegate; an
\* exception leaves the loop and __parse__ and is logged by __init__
ParseStatement ==
    /\ logged = ""
    /\ lineNumber < Len(statements)
    /\ statements[lineNumber + 1].keyword # Comment
    /\ ~(lineNumber + 1 = Len(statements) /\ Unterminated(statements, delimited))
    /\ LET r == dispatch(fileInfo, statements[lineNumber + 1])
       IN  /\ fileInfo' = r.info
           /\ IF r.raised = None
              THEN /\ lineNumber' = lineNumber + 1
                   /\ applied' = applied \cup {lineNumber + 1}
                   /\ logged' = logged
              ELSE /\ logged' = r.raised
                   /\ UNCHANGED <<lineNumber, applied>>
    /\ UNCHANGED <<statements, delimited, appended, parserOthers>>

(***************************************************************************)
(* The plugs of one node.  A plug is created by AsciiPlugPath.evaluate the  *)
(* first time its attribute is named; it holds a data block (value), the    *)
(* values of its children (kids) when its attribute is a compound, or its   *)
(* elements when the attribute is a multi.                                  *)
(***************************************************************************)

\* the numbers that are values run from -1 to MaxNumber
MaxNumber == 2

Numbers == -1..MaxNumber

\* a value: a number or a string
Num(n) == [isStr |-> FALSE, n |-> n, s |-> ""]

StrVal(s) == [isStr |-> TRUE, n |-> 0, s |-> s]

\* a plug without data block (no _dataBlock was assigned)
NoValue == [isStr |-> TRUE, n |-> -1, s |-> "<no data block>"]

\* an attribute as addAttr declares it: -at, -dt, -m, -min / -max, children
Attr(attributeType, dataType, multi, kids, clamped) ==
    [attributeType |-> attributeType, dataType |-> dataType, multi |-> multi,
     children |-> kids, hasMinValue |-> clamped, minValue |-> 0,
     hasMaxValue |-> clamped, maxValue |-> 1]

\* the attributes of the node, by name; "" is no -dt flag
NodeAttributes ==
    [f |-> Attr("float", "", FALSE, <<>>, TRUE),
     s |-> Attr("typed", "string", FALSE, <<>>, FALSE),
     tf |-> Attr("typed", "nurbsTrimface", FALSE, <<>>, FALSE),
     un |-> Attr("unknown", "", FALSE, <<>>, FALSE),
     mtf |-> Attr("typed", "nurbsTrimface", TRUE, <<>>, FALSE),
     c |-> Attr("compound", "", FALSE, <<"cx", "cy">>, FALSE),
     cx |-> Attr("float", "", FALSE, <<>>, FALSE),
     cy |-> Attr("float", "", FALSE, <<>>, FALSE)]

\* the attributes that paths name (cx and cy are reached through c)
TopLevel == {"f", "s", "tf", "un", "mtf", "c"}

\* __data_types__: the data class of a kind (nurbsTrimface has None)
DataTypes ==
    [float |-> "AsciiFloat", string |-> "AsciiString", compound |-> "AsciiCompound",
     typed |-> "AsciiGeneric", nurbsTrimface |-> None]

\* the value a data block of the class starts with
blockDefault(cls) ==
    CASE cls = "AsciiFloat" -> Num(0)
      [] cls = "AsciiString" -> StrVal("")
      [] OTHER -> NoValue

\* AsciiAttribute.isTyped: the attribute has a -dt flag
attrIsTyped(attr) == attr.dataType # ""

\* the key that getDataType looks up
dataKind(attr) == IF attrIsTyped(attr) THEN attr.dataType ELSE attr.attributeType

\* __data_types__.get(kind, None)
dataClass(attr) ==
    IF dataKind(attr) \in DOMAIN DataTypes THEN DataTypes[dataKind(attr)] ELSE None

\* getDataType without the callable check: the class or None is returned
getDataTypeUnchecked(attr) == [cls |-> dataClass(attr), raised |-> None]

\* asciidata.getDataType: the class that __data_types__ gives the kind;
\* NotImplementedError when it gives none or None
getDataType(attr) ==
    IF dataClass(attr) # None
    THEN [cls |-> dataClass(attr), raised |-> None]
    ELSE [cls |-> None, raised |-> "NotImplementedError"]

\* a plug: the value of its data block, of its children, and its elements
Plug(value, kids, elems) == [value |-> value, kids |-> kids, elements |-> elems]

\* AsciiPlug.__init__ of a plug without children: the data block of the class
\* that getDataType returns, when it is not None
newLeaf(attr) ==
    Bind(getDataType(attr), LAMBDA dt :
        IF dt.raised # None THEN [plug |-> Plug(NoValue, <<>>, <<>>), raised |-> dt.raised]
        ELSE [plug |-> Plug(IF dt.cls # None THEN blockDefault(dt.cls) ELSE NoValue, <<>>, <<>>),
              raised |-> None])

\* AsciiPlug.__init__: an array plug gets an empty SparseArray, a compound a plug
\* for every child attribute, any other plug its data block
newPlug(attr, isElement) ==
    IF attr.multi /\ ~isElement THEN [plug |-> Plug(NoValue, <<>>, <<>>), raised |-> None]
    ELSE IF attr.children # <<>>
    THEN Bind([k \in DOMAIN attr.children |-> newLeaf(NodeAttributes[attr.children[k]])],
              LAMBDA made :
                IF \E k \in DOMAIN made : made[k].raised # None
                THEN [plug |-> Plug(NoValue, <<>>, <<>>),
                      raised |-> made[CHOOSE k \in DOMAIN made : made[k].raised # None].raised]
                ELSE [plug |-> Plug(NoValue, [k \in DOMAIN made |-> made[k].plug.value], <<>>),
                      raised |-> None])
    ELSE newLeaf(attr)

\* the first level of AsciiPlugPath.evaluate on the node's plugs ps: the plug of
\* the attribute is looked up, or constructed and stored; with an index
\* (NoIndex is None) the element is looked up, or constructed and stored
findPlug(ps, name, index) ==
    Bind(IF name \in DOMAIN ps THEN [plug |-> ps[name], raised |-> None]
         ELSE newPlug(NodeAttributes[name], FALSE),
         LAMBDA top :
           IF top.raised # None THEN [plugs |-> ps, raised |-> top.raised]
           ELSE IF index = NoIndex \/ \E k \in DOMAIN top.plug.elements :
                                         top.plug.elements[k].index = index
           THEN [plugs |-> DictSet(ps, name, top.plug), raised |-> None]
           ELSE Bind(newPlug(NodeAttributes[name], TRUE), LAMBDA element :
                  IF element.raised # None
                  THEN [plugs |-> DictSet(ps, name, top.plug), raised |-> element.raised]
                  ELSE [plugs |-> DictSet(ps, name,
                                     [top.plug EXCEPT !.elements =
                                        Append(@, [index |-> index, value |-> element.plug.value])]),
                        raised |-> None]))

\* AsciiNode.__init__: no plug yet
NodeStart ==
    /\ nodePlugs = <<>>
    /\ ncall = [op |-> "init", name |-> "", index |-> NoIndex, raised |-> None, before |-> <<>>,
                value |-> NoValue, count |-> 0]

\* AsciiPlugPath(name).evaluate() for a path of one segment, with or without an
\* index (an index is given on a multi only)
FindPlug ==
    \E name \in TopLevel : \E index \in {NoIndex, 0} :
        /\ index # NoIndex => NodeAttributes[name].multi
        /\ \E r \in {findPlug(nodePlugs, name, index)} :
              /\ nodePlugs' = r.plugs
              /\ ncall' = [op |-> "findPlug", name |-> name, index |-> index,
                           raised |-> r.raised, before |-> nodePlugs,
                           value |-> NoValue, count |-> 0]
        /\ UNCHANGED nodeOthers

\* a list of items, and a dict of items by key, as the value of a compound
ListArg(items) == [isDict |-> FALSE, keys |-> <<>>, items |-> items]

DictArg(keys, items) == [isDict |-> TRUE, keys |-> keys, items |-> items]

\* what iterating the value yields: the items of a list, the keys of a dict
iterate(arg) == IF arg.isDict THEN [k \in DOMAIN arg.keys |-> StrVal(arg.keys[k])] ELSE arg.items

\* AsciiPlug.setValue on a plug without children and AsciiData.set: the value is
\* assigned to the data block
leafSetValue(plug, value) == [plug |-> [plug EXCEPT !.value = value], raised |-> None]

\* the compound branch of setValue without the count check: zip stops at the
\* shorter of children and items
compoundSetValueUnchecked(plug, arg) ==
    [plug |-> [plug EXCEPT !.kids = [k \in DOMAIN @ |->
                  IF k <= Len(arg.items) THEN iterate(arg)[k] ELSE @[k]]],
     raised |-> None]

\* AsciiPlug.setValue on a compound plug: TypeError unless len(value) is the
\* number of children, else every child is set to the item that zip pairs it with
compoundSetValue(plug, arg) ==
    IF Len(plug.kids) = Len(arg.items)
    THEN [plug |-> [plug EXCEPT !.kids = [k \in DOMAIN @ |-> iterate(arg)[k]]], raised |-> None]
    ELSE [plug |-> plug, raised |-> "TypeError"]

\* AsciiPlug.getValue: the value of the data block; for a plug with children a
\* dict of their values by long name when the attribute type is compound, else
\* the list of their values
plugGetValue(attr, plug) ==
    IF attr.children # <<>>
    THEN IF attr.attributeType = "compound" THEN DictArg(attr.children, plug.kids)
         ELSE ListArg(plug.kids)
    ELSE ListArg(<<plug.value>>)

\* plug.setValue(value) on the plug of a number or of a string
SetLeafValue ==
    \E name \in {"f", "s"} \cap DOMAIN nodePlugs :
    \E value \in IF name = "f" THEN {Num(n) : n \in Numbers} ELSE {StrVal(""), StrVal("a")} :
    \E r \in {leafSetValue(nodePlugs[name], value)} :
        /\ nodePlugs' = [nodePlugs EXCEPT ![name] = r.plug]
        /\ ncall' = [op |-> "setValue", name |-> name, index |-> NoIndex, raised |-> r.raised,
                     before |-> nodePlugs, value |-> value, count |-> 1]
        /\ UNCHANGED nodeOthers

\* plug.setValue(items) on the compound plug, with a list of numbers
SetCompoundValue ==
    \E name \in {"c"} \cap DOMAIN nodePlugs :
    \E items \in SeqsUpTo({Num(0), Num(1)}, 3) :
    \E r \in {compoundSetValue(nodePlugs[name], ListArg(items))} :
        /\ nodePlugs' = [nodePlugs EXCEPT ![name] = r.plug]
        /\ ncall' = [op |-> "setValue", name |-> name, index |-> NoIndex, raised |-> r.raised,
                     before |-> nodePlugs, value |-> NoValue, count |-> Len(items)]
        /\ UNCHANGED nodeOthers

\* plug.setValue(plug.getValue()) on the compound plug
SetGetValue ==
    \E name \in {"c"} \cap DOMAIN nodePlugs :
    \E r \in {compoundSetValue(nodePlugs[name],
                                plugGetValue(NodeAttributes[name], nodePlugs[name]))} :
        /\ nodePlugs' = [nodePlugs EXCEPT ![name] = r.plug]
        /\ ncall' = [op |-> "setValue(getValue())", name |-> name, index |-> NoIndex,
                     raised |-> r.raised, before |-> nodePlugs, value |-> NoValue,
                     count |-> Len(nodePlugs[name].kids)]
        /\ UNCHANGED nodeOthers

\* number of connectAttr -na statements of a file
MaxNextAvailable == 3

\* no element is connected
NaStart == naSource = <<>> /\ naCount = 0

\* AsciiFileParser.connectAttr with the -na flag on the array plug: the element at
\* nextAvailableIndex() is fetched through elementByLogicalIndex and the source
\* plug is connected to it (AsciiPlug.connect assigns the element's _source)
ConnectAttrNextAvailable ==
    \E plug \in Plugs : \E index \in {nextAvailableIndex(elements)} :
        /\ naCount < MaxNextAvailable
        /\ nextId < MaxPlugs
        /\ elements' = elementByLogicalIndex(elements, index, nextId)
        /\ nextId' = IF get(elements, index) = NoElement THEN nextId + 1 ELSE nextId
        /\ naSource' = DictSet(naSource, index, plug)
        /\ naCount' = naCount + 1
        /\ last' = [op |-> "connectAttr", index |-> index, size |-> -1,
                    ret |-> get(elements', index).id]
        /\ out' = NoOut
        /\ UNCHANGED <<connVars, dataVars, codecVars, pathVars, regVars, treeVars,
                       parserVars, nodeVars, cmdVars, valVars>>

(***************************************************************************)
(* Specifications                                                          *)
(***************************************************************************)

\* the array plug and its serialisation
Init == ArrStart /\ ConnStart /\ DataIdle /\ CodecIdle /\ PathIdle /\ RegStart /\ TreeStart /\ ParserIdle /\ NodeStart /\ CmdStart /\ ValStart /\ NaStart

Next == ElementByLogicalIndex \/ SetSize \/ SetValue \/ NextAvailableIndex \/ RoundTrip

Spec == Init /\ [][Next]_vars

\* connections between plugs
ConnNext == Connect \/ Disconnect \/ GetConnectAttrCmds

SpecConn == Init /\ [][ConnNext]_vars

\* data blocks and the serialisation of a single plug
DataInit == ArrStart /\ ConnStart /\ DataStart /\ CodecIdle /\ PathIdle /\ RegStart /\ TreeStart /\ ParserIdle /\ NodeStart /\ CmdStart /\ ValStart /\ NaStart

DataNext == Set \/ IsNonDefault \/ GetSetAttrCmds

SpecData == DataInit /\ [][DataNext]_vars

\* the codecs
CodecInit == ArrStart /\ ConnStart /\ DataIdle /\ CodecStart /\ PathIdle /\ RegStart /\ TreeStart /\ ParserIdle /\ NodeStart /\ CmdStart /\ ValStart /\ NaStart

CodecNext == WriteAscii \/ ReadAscii \/ Decode

SpecCodec == CodecInit /\ [][CodecNext]_vars

\* plug paths on the array plug
PathInit == ArrStart /\ ConnStart /\ DataIdle /\ CodecIdle /\ PathStart /\ RegStart /\ TreeStart /\ ParserIdle /\ NodeStart /\ CmdStart /\ ValStart /\ NaStart

PathNext == Type \/ Evaluate \/ PathElementByLogicalIndex \/ PathSetSize \/ PathSetValue

SpecPath == PathInit /\ [][PathNext]_vars

\* the registry
RegNext == CreateNode \/ SetName \/ SetNamespace \/ SetUuid

SpecReg == Init /\ [][RegNext]_vars

\* the node hierarchy
TreeNext == SetParent

SpecTree == Init /\ [][TreeNext]_vars

\* the file parser
ParserInit ==
    ArrStart /\ ConnStart /\ DataIdle /\ CodecIdle /\ PathIdle /\ RegStart /\ TreeStart /\ ParserStart /\ NodeStart /\ CmdStart /\ ValStart /\ NaStart

ParserNext == ParseEof \/ ParseComment \/ ParseStatement \/ ParseAppend

SpecParser == ParserInit /\ [][ParserNext]_vars

\* the file parser runs on: __init__ calls __parse__ and nothing suspends its loop
SpecParserRuns == ParserInit /\ [][ParserNext]_vars /\ WF_vars(ParserNext)

\* the value of the array plug
ValueNext == ElementByLogicalIndex \/ SetValue \/ GetValue

SpecValue == Init /\ [][ValueNext]_vars

\* connectAttr -na statements on the array plug
NaNext == ConnectAttrNextAvailable \/ ElementByLogicalIndex

SpecNa == Init /\ [][NaNext]_vars

\* the plugs of a node
NodeNext == FindPlug \/ SetLeafValue \/ SetCompoundValue \/ SetGetValue

SpecNode == Init /\ [][NodeNext]_vars

(***************************************************************************)
(* Claims                                                                  *)
(***************************************************************************)

\* C1: after any sequence of connect and disconnect calls the two sides of every
\* connection agree: D is listed in S.destinations() iff D.source() is S.
C1_BothSidesAgree ==
    \A s \in Plugs, d \in Plugs :
        (d \in Range(destinations[s])) <=> (source[d] = s)

\* C2: A.disconnect(B) on a connected pair A->B completes successfully (returns
\* true, raises nothing) and leaves B without source and out of A's destinations.
C2_DisconnectSucceeds ==
    (call.op = "disconnect" /\ call.wasConnected) =>
        /\ call.raised = None
        /\ call.ret = "True"
        /\ source[call.otherPlug] = None
        /\ call.otherPlug \notin Range(destinations[call.plug])

\* the smallest non-negative logical index that is not in use
FirstFree(els) == CHOOSE n \in 0..Len(els) : n \notin Keys(els) /\ \A m \in 0..(n - 1) : m \in Keys(els)

\* C3: nextAvailableIndex() returns the smallest non-negative logical index not
\* in use (the first gap, one past the last index of 0..n-1, 0 when empty), never
\* an index already in use.
C3_NextAvailableIsFirstFree ==
    last.op = "nextAvailableIndex" =>
        /\ last.ret \notin Keys(elements)
        /\ last.ret = FirstFree(elements)

\* C4: on a top-level array plug with any existing elements, assigning size = N
\* with N >= numElements results in numElements = N.
C4_SizeSetsNumElements ==
    [][(last'.op = "size" /\ last'.size >= numElements(elements))
        => numElements(elements') = last'.size]_vars

\* C5: assigning size never removes or replaces an existing element: every
\* logical index present before is present afterwards with the same element plug
\* and the same value.
C5_SizeKeepsElements ==
    [][last'.op = "size"
        => \A k \in DOMAIN elements : get(elements', elements[k].index) = elements[k]]_vars

\* C6: elementByLogicalIndex(i) creates element i only when it does not exist
\* yet; on an existing index it returns the plug already stored there and leaves
\* numElements, the set of logical indices and every element unchanged.
C6_ElementByLogicalIndexIdempotent ==
    [][last'.op = "elementByLogicalIndex" =>
        IF last'.index \in Keys(elements)
        THEN /\ elements' = elements
             /\ last'.ret = get(elements, last'.index).id
        ELSE /\ Keys(elements') = Keys(elements) \cup {last'.index}
             /\ \A k \in DOMAIN elements : get(elements', elements[k].index) = elements[k]
             /\ \A k \in DOMAIN elements : last'.ret # elements[k].id]_vars

\* C6 witness: elementByLogicalIndex was called on an index that already existed
\* in an array of several elements (no plug was constructed by the call)
C6_Witness ==
    /\ last.op = "elementByLogicalIndex"
    /\ numElements(elements) >= 2
    /\ last.ret < nextId - 1

\* C7: serialising a non-empty array-of-compound plug and re-parsing the commands
\* into a fresh graph yields exactly the same logical indices in the same order.
C7_RoundTripKeepsIndices ==
    (out.ran /\ numElements(elements) > 0) => indices(out.els) = indices(elements)

\* the leaf values of the single plug differ from their effective defaults
DiffersFromDefault(attr, val) ==
    IF attr.kind = "double3"
    THEN \E k \in DOMAIN val : val[k] # FloatDefault
    ELSE val # default(attr)

\* C8: with non-default filtering, getSetAttrCmds on a storable plug emits an
\* assignment exactly when a leaf value differs from its effective default; a
\* plug (scalar, numeric compound or matrix) at its defaults contributes nothing.
C8_EmitsExactlyNonDefault ==
    (dout.ran /\ attribute.storable) =>
        (Len(dout.cmds) > 0 <=> DiffersFromDefault(attribute, blockValue))

\* C9: for every data kind and after any sequence of set() calls, isNonDefault()
\* is true exactly when the value differs from the effective default (the
\* attribute's override when present, else the class default); a fresh data block
\* reports false.
C9_IsNonDefaultIffDiffers ==
    dcall.op = "isNonDefault" =>
        /\ dcall.ret <=> (blockValue # default(attribute))
        /\ dcall.fresh => ~dcall.ret

\* C10: serialising, re-parsing into a fresh graph and serialising again yields
\* the same command sequence as the first serialisation.
C10_RoundTripIdempotent ==
    out.ran => out.cmds2 = out.cmds

\* C11: for every supported data kind and value, decoding the encoded form gives
\* back the value: encoding succeeds and readAscii of the written tokens returns
\* the list holding the value.
C11_DecodeEncodeIsIdentity ==
    /\ codec.op \in {"writeAscii", "readAscii"} => codec.raised = None
    /\ codec.op = "readAscii" => codec.result = <<codec.value>>

\* C12: every parsed path gets exactly one of the three types: single exactly
\* when no segment carries a slice, array exactly when only the last segment
\* carries a slice, compound-array exactly when the last segment carries no index
\* and the second-to-last carries a slice; type() never fails.
C12_TypeClassifiesEveryPath ==
    ptype.ran =>
        /\ ptype.raised = None
        /\ ptype.ret = "kSingle" <=> \A k \in DOMAIN path : path[k].kind # "slice"
        /\ ptype.ret = "kArray" <=>
              /\ path[Len(path)].kind = "slice"
              /\ \A k \in 1..(Len(path) - 1) : path[k].kind # "slice"
        /\ ptype.ret = "kCompoundArray" <=>
              /\ Len(path) >= 2
              /\ path[Len(path)].kind = "none"
              /\ path[Len(path) - 1].kind = "slice"

\* C13: resolving a path whose segment is name[a:b] treats the stop as
\* exclusive: it yields exactly the elements at a, ..., b-1 (b-a plugs) and the
\* element at b is neither returned nor created.
C13_SliceStopExclusive ==
    (pcall.op = "evaluate" /\ ~pcall.cached /\ Len(path) = 1 /\ path[1].kind = "slice"
        /\ path[1].start <= path[1].stop) =>
        /\ pcall.raised = None
        /\ pcall.plugs = [k \in 1..(path[1].stop - path[1].start) |->
                            ElementPlug(get(elements, path[1].start + k - 1).id)]
        /\ path[1].stop \notin pcall.before => path[1].stop \notin Keys(elements)

\* C14: the first evaluate() of a path fixes its result: every later evaluate()
\* returns the same plug list and creates no plug or array element, even when the
\* graph was mutated between the calls.
C14_EvaluateIsMemoized ==
    (pcall.op = "evaluate" /\ pcall.cached) =>
        /\ pcall.raised = None
        /\ pcall.plugs = pcall.first
        /\ pcall.created = 0
        /\ ~pcall.changed

\* C14 witness: a cached evaluate() returned an element plug that the array no
\* longer holds (the size setter replaced it after the first evaluate())
C14_Witness ==
    /\ pcall.op = "evaluate"
    /\ pcall.cached
    /\ \E k \in DOMAIN pcall.first :
          /\ pcall.first[k].level = "element"
          /\ \A j \in DOMAIN elements : elements[j].id # pcall.first[k].id

\* C15: no two nodes of a registry have the same UUID; a node created without an
\* explicit UUID is given a generated registry-unique UUID that is registered in
\* the UUID index.
C15_UuidsUnique ==
    /\ \A h1 \in DOMAIN nodes : \A h2 \in DOMAIN nodes \ {h1} : nodes[h1].uuid # nodes[h2].uuid
    /\ \A h \in DOMAIN nodes : nodes[h].uuid # "" /\ DictGet(uuids, nodes[h].uuid, 0) = h

\* C16: every node with a non-empty name is registered under its current
\* namespace:name key and that key is unique: the lookup of a node's absolute
\* name returns that node, and no two nodes hold the same namespace:name.
C16_NamesRegisteredAndUnique ==
    \A h \in DOMAIN nodes :
        nodes[h].name # "" =>
            /\ getNodeByName(Registry, AbsoluteName(nodes[h].namespace, nodes[h].name)) = h
            /\ \A h2 \in DOMAIN nodes \ {h} :
                  AbsoluteName(nodes[h2].namespace, nodes[h2].name)
                      # AbsoluteName(nodes[h].namespace, nodes[h].name)

\* C17: changing a node's name, namespace or UUID never removes or redirects a
\* registry key that maps to another node, and afterwards each key of the names
\* index (of the UUID index) maps to a node whose current namespace:name (UUID)
\* equals that key.
C17_KeysOfOthersKept ==
    [][/\ rcall'.op \in {"name", "namespace", "uuid"} =>
            /\ \A k \in DOMAIN names :
                  names[k] # rcall'.node => (k \in DOMAIN names' /\ names'[k] = names[k])
            /\ \A k \in DOMAIN uuids :
                  uuids[k] # rcall'.node => (k \in DOMAIN uuids' /\ uuids'[k] = uuids[k])
       /\ \A k \in DOMAIN names' :
            AbsoluteName(nodes'[names'[k]].namespace, nodes'[names'[k]].name) = k
       /\ \A k \in DOMAIN uuids' : nodes'[uuids'[k]].uuid = k]_vars

\* C18: assigning node.parent = P2 to a node parented to P1 (P1, P2 distinct
\* nodes) completes without error and afterwards node.parent is P2, node is in
\* P2.children and node is not in P1.children.
C18_ReparentIsSymmetric ==
    (tcall.op = "parent" /\ tcall.oldParent # 0 /\ tcall.newParent # 0
        /\ tcall.oldParent # tcall.newParent
        /\ tcall.node \notin {tcall.oldParent, tcall.newParent} /\ ~tcall.cyclic) =>
        /\ tcall.raised = None
        /\ parent[tcall.node] = tcall.newParent
        /\ tcall.node \in Range(children[tcall.newParent])
        /\ tcall.node \notin Range(children[tcall.oldParent])

\* C19: reparenting a node to itself or to one of its descendants is rejected
\* with an error and leaves the hierarchy unchanged, so the hierarchy is acyclic:
\* following parent links from any node reaches a node without parent.
C19_HierarchyAcyclic ==
    /\ (tcall.op = "parent" /\ tcall.cyclic) => (tcall.raised # None /\ Tree = tcall.before)
    /\ \A n \in TreeNodes : ~IsAncestor(Tree, n, n, MaxTreeNodes)

\* a well-formed statement of the file
WellFormed(line) == line.keyword \in Delegates /\ dispatch(<<>>, line).raised = None

\* a statement of the file whose processing fails
Fails(line) == line.keyword # Comment /\ dispatch(<<>>, line).raised # None

\* C20: when processing one statement fails (shape error, unknown keyword), only
\* that statement is abandoned: once the parser has finished, every later
\* well-formed statement of the file has been processed and applied to the scene.
C20_LaterStatementsProcessed ==
    logged # "" =>
        \A i, j \in DOMAIN statements :
            (i < j /\ Fails(statements[i]) /\ WellFormed(statements[j])) => j \in applied

\* the attribute's data kind has no data class
Unsupported(attr) == dataKind(attr) \notin {"float", "string", "compound", "typed"}

BoolSpellings == {"on", "yes", "true", "off", "no", "false"}

\* C22: no decode silently substitutes a default: decoding a boolean token outside
\* the recognised spellings, or the payload of a generic typed attribute, is
\* reported as an error.
C22_NoSilentDefault ==
    (codec.op = "decode"
        /\ \/ codec.kind = "bool" /\ codec.tokens[1] \notin BoolSpellings
           \/ codec.kind = "generic") => codec.raised # None

\* C23: an array-kind decoder bounds consumption by the declared count: the
\* decoded array has exactly as many elements as the leading count token says,
\* however many tokens follow, and encoding it re-emits that count.
C23_CountBoundsConsumption ==
    (codec.op = "decode" /\ codec.kind \in ArrayKinds
        /\ Len(codec.tokens) > IntOf(codec.tokens[1])) =>
        /\ codec.raised = None
        /\ Len(codec.result[1]) = IntOf(codec.tokens[1])
        /\ dumps(codec.kind, codec.result[1])[1] = codec.tokens[1]

\* C24: setting a value outside the attribute's declared min/max bounds is
\* rejected as an error for that value, and the plug's stored value and the values
\* of all sibling plugs remain unchanged.
C24_OutOfRangeRejected ==
    (ncall.op = "setValue" /\ ~ncall.value.isStr
        /\ \/ NodeAttributes[ncall.name].hasMinValue
              /\ ncall.value.n < NodeAttributes[ncall.name].minValue
           \/ NodeAttributes[ncall.name].hasMaxValue
              /\ ncall.value.n > NodeAttributes[ncall.name].maxValue)
        => (ncall.raised # None /\ nodePlugs = ncall.before)

\* C25: setValue on a compound plug with a number of items different from its
\* number of children fails with an error and modifies no child value.
C25_CountMismatchFails ==
    (ncall.op = "setValue" /\ NodeAttributes[ncall.name].children # <<>>
        /\ ncall.count # Len(NodeAttributes[ncall.name].children))
        => (ncall.raised = "TypeError" /\ nodePlugs = ncall.before)

\* C25 witness: three items were given to the compound plug of two children, one
\* of which had been set before
C25_Witness ==
    /\ ncall.op = "setValue" /\ ncall.name = "c" /\ ncall.count = 3
    /\ ncall.raised = "TypeError"
    /\ nodePlugs["c"].kids = <<Num(1), Num(0)>>

\* C28: for a non-numeric compound plug, setValue(getValue()) changes nothing:
\* it succeeds and every child's value is what it was.
C28_SetGetValueChangesNothing ==
    ncall.op = "setValue(getValue())" => (ncall.raised = None /\ nodePlugs = ncall.before)

\* C26: after any sequence of connect and disconnect calls, producing the
\* connectAttr commands of all nodes raises no error and the commands correspond
\* one-to-one to the live connections: each pair (S, D) with D.source() = S yields
\* exactly one command, and every command is such a pair.
C26_CommandsMatchConnections ==
    ccmds.ran =>
        /\ ccmds.raised = None
        /\ \A d \in Plugs :
              ccmds.source[d] # None =>
                  Cardinality({i \in DOMAIN ccmds.cmds :
                                  ccmds.cmds[i] = <<ccmds.source[d], d>>}) = 1
        /\ \A i \in DOMAIN ccmds.cmds : ccmds.source[ccmds.cmds[i][2]] = ccmds.cmds[i][1]

\* C27: getValue on the array plug returns its element values in logical-index
\* order: when the logical indices are exactly 0..n-1 the result is the sequence of
\* the values of elements 0, 1, ..., n-1 whatever the order of creation, and when
\* they are sparse the result maps each logical index to that element's value.
C27_GetValueInIndexOrder ==
    gv.ran =>
        IF Keys(gv.elements) = 0..(Len(gv.elements) - 1)
        THEN /\ ~gv.ret.isDict
             /\ gv.ret.items = [i \in 1..Len(gv.elements) |-> get(gv.elements, i - 1).w]
        ELSE /\ gv.ret.isDict
             /\ gv.ret.called
             /\ Range(gv.ret.keys) = Keys(gv.elements)

\* C30: when several connectAttr -na statements target the array plug, each
\* connection is made to a distinct, previously unused element: no -na connection
\* replaces the source of a connected element, so after k such statements the
\* array has k connected elements.
C30_NextAvailableIsDistinct ==
    Cardinality(DOMAIN naSource) = naCount

\* C29: parsing a finite file always terminates, also when its last statement is
\* not terminated by the delimiter before the end of the file: the parser
\* eventually leaves __parse__ (the end of the file or an error is logged).
C29_ParseTerminates == <>(logged # "")

====
